---- MODULE Spec2Model ----
(***************************************************************************)
(* Model of demosaic/modules.py: the kernel application primitive          *)
(* apply_kernels and the kernel-predicting reconstruction BayerKP.forward  *)
(* (mosaic unpacking, softmax-normalised kernel slices, un-tiling).        *)
(*                                                                         *)
(* Tensors are functions over 0-based index ranges, indexed               *)
(* [batch][channel][row][column].  Real values are exact rationals         *)
(* [n |-> numerator, d |-> denominator] with d > 0.                        *)
(***************************************************************************)
EXTENDS Integers, Sequences, FiniteSets, TLC

VARIABLES
  pc,            \* position of the call: "start", then "done" (or "unrolled")
  kshape,        \* apply_kernels: kernel.shape
  sshape,        \* apply_kernels: noisy_data.shape
  akres,         \* apply_kernels: outcome at shape level
  kernel,        \* apply_kernels: the kernel tensor
  noisy_data,    \* apply_kernels: the source tensor
  weighted_sum,  \* apply_kernels: the returned tensor
  ksize,         \* BayerKP: self.ksize
  mosaic,        \* BayerKP.forward: samples["mosaic"]
  kernels,       \* BayerKP.forward: the bank returned by self.kernels
  fwd,           \* BayerKP.forward: outcome (output tensor, kernels handed on)
  roundtrip      \* unroll applied to the unpacked mosaic

vars == <<pc, kshape, sshape, akres, kernel, noisy_data, weighted_sum,
          ksize, mosaic, kernels, fwd, roundtrip>>

(***************************************************************************)
(* Bounds of the model.                                                    *)
(***************************************************************************)
MaxBatch == 2
MaxDepth == 9
MaxChan == 2
MaxKer == 4
MaxSrc == 6

(***************************************************************************)
(* Python / numpy / torch primitives used by the code.                     *)
(***************************************************************************)
Max(a, b) == IF a >= b THEN a ELSE b

Min(a, b) == IF a <= b THEN a ELSE b

\* int(np.sqrt(n)): the integer part of the square root.
ISqrt(n) == CHOOSE r \in 0..n : r * r <= n /\ (r + 1) * (r + 1) > n

\* A Python slice bound i applied to a dimension of length n: a negative
\* bound counts from the end, and the result is clamped to 0..n.
PyBound(n, i) == IF i < 0 THEN Max(n + i, 0) ELSE Min(i, n)

\* First index and length of t[start:stop] on a dimension of length n.
PySliceStart(n, start, stop) == PyBound(n, start)

PySliceLen(n, start, stop) == Max(PyBound(n, stop) - PyBound(n, start), 0)

(***************************************************************************)
(* apply_kernels, shape level.  ks = <<kb, kd, kh, kw>> is kernel.shape,   *)
(* ss = <<bs, ci, h, w>> is noisy_data.shape.                              *)
(***************************************************************************)
\* ksize = int(np.sqrt(kernel.shape[1]))
KSizeOf(ks) == ISqrt(ks[2])

\* needed = kh + ksize - 1
NeededBadNoMinusOne(ks) == ks[3] + KSizeOf(ks)

Needed(ks) == ks[3] + KSizeOf(ks) - 1

\* The branch taken and the crop amount.
CropsKernel(ks, ss) == Needed(ks) > ss[3]

CropAmount(ks, ss) ==
  IF CropsKernel(ks, ss) THEN (Needed(ks) - ss[3]) \div 2
                         ELSE (ss[3] - Needed(ks)) \div 2

\* kernel = kernel[:, :, crop:-crop, crop:-crop] when needed > h and crop > 0
CroppedKernelShape(ks, ss) ==
  LET crop == CropAmount(ks, ss) IN
  IF CropsKernel(ks, ss) /\ crop > 0
    THEN <<ks[1], ks[2], PySliceLen(ks[3], crop, -crop), PySliceLen(ks[4], crop, -crop)>>
    ELSE ks

\* noisy_data = noisy_data[:, :, crop:-crop, crop:-crop] when needed <= h and crop > 0
CroppedSourceShape(ks, ss) ==
  LET crop == CropAmount(ks, ss) IN
  IF ~CropsKernel(ks, ss) /\ crop > 0
    THEN <<ss[1], ss[2], PySliceLen(ss[3], crop, -crop), PySliceLen(ss[4], crop, -crop)>>
    ELSE ss

\* Rows and columns actually removed from each side of a dimension of
\* length n by the slice crop:-crop (crop > 0).
RemovedLow(n, crop) == PySliceStart(n, crop, -crop)

RemovedHigh(n, crop) == n - PySliceStart(n, crop, -crop) - PySliceLen(n, crop, -crop)

\* kernel.contiguous().view(bs, 1, kh, kw, ksize*ksize): a view succeeds
\* exactly when the element counts agree.
KernelViewOk(ks, ss) ==
  LET kc == CroppedKernelShape(ks, ss)
      K  == KSizeOf(ks)
  IN kc[1] * kc[2] * kc[3] * kc[4] = ss[1] * 1 * kc[3] * kc[4] * (K * K)

\* noisy_data.unfold(2, ksize, 1).unfold(3, ksize, 1): an unfold fails when
\* the window is larger than the dimension.
UnfoldOkBadStrict(ks, ss) ==
  LET sc == CroppedSourceShape(ks, ss)
      K  == KSizeOf(ks)
  IN K < sc[3] /\ K < sc[4]

UnfoldOk(ks, ss) ==
  LET sc == CroppedSourceShape(ks, ss)
      K  == KSizeOf(ks)
  IN K <= sc[3] /\ K <= sc[4]

\* Number of windows per dimension after the two unfolds.
WindowRows(ks, ss) == CroppedSourceShape(ks, ss)[3] - KSizeOf(ks) + 1

WindowCols(ks, ss) == CroppedSourceShape(ks, ss)[4] - KSizeOf(ks) + 1

\* tiles.contiguous().view(bs, ci, kh, kw, ksize*ksize)
TilesViewOk(ks, ss) ==
  LET kc == CroppedKernelShape(ks, ss)
      K  == KSizeOf(ks)
  IN ss[1] * ss[2] * WindowRows(ks, ss) * WindowCols(ks, ss) * K * K
       = ss[1] * ss[2] * kc[3] * kc[4] * (K * K)

\* The whole call: the first failing step raises, otherwise the result has
\* shape (bs, ci, kh, kw).
ApplyKernelsShape(ks, ss) ==
  LET kc == CroppedKernelShape(ks, ss)
      sc == CroppedSourceShape(ks, ss)
      err == IF ~KernelViewOk(ks, ss) THEN "view_kernel"
             ELSE IF ~UnfoldOk(ks, ss) THEN "unfold"
             ELSE IF ~TilesViewOk(ks, ss) THEN "view_tiles"
             ELSE "none"
  IN [ok      |-> err = "none",
      error   |-> err,
      ksize   |-> KSizeOf(ks),
      crop    |-> CropAmount(ks, ss),
      kernelc |-> kc,
      sourcec |-> sc,
      shape   |-> IF err = "none" THEN <<ss[1], ss[2], kc[3], kc[4]>> ELSE <<>>]

(***************************************************************************)
(* Exact arithmetic on values.                                             *)
(***************************************************************************)
R(n, d) == [n |-> n, d |-> d]

RMul(a, b) == R(a.n * b.n, a.d * b.d)

RAdd(a, b) == IF a.d = b.d THEN R(a.n + b.n, a.d)
                           ELSE R(a.n * b.d + b.n * a.d, a.d * b.d)

REq(a, b) == a.n * b.d = b.n * a.d

RLe(a, b) == a.n * b.d <= b.n * a.d

\* Sum of terms[0] .. terms[n-1].
RECURSIVE RSum(_, _)
RSum(terms, n) == IF n = 0 THEN R(0, 1) ELSE RAdd(RSum(terms, n - 1), terms[n - 1])

RECURSIVE ISum(_, _)
ISum(terms, n) == IF n = 0 THEN 0 ELSE ISum(terms, n - 1) + terms[n - 1]

(***************************************************************************)
(* Tensors: t[b][c][y][x], every index 0-based.                            *)
(***************************************************************************)
Size(f) == Cardinality(DOMAIN f)

ShapeOf(t) == <<Size(t), Size(t[0]), Size(t[0][0]), Size(t[0][0][0])>>

\* t[:, lo:hi]
SliceCh(t, lo, hi) ==
  LET n  == Size(t[0])
      st == PySliceStart(n, lo, hi)
      ln == PySliceLen(n, lo, hi)
  IN [b \in DOMAIN t |-> [c \in 0..(ln - 1) |-> t[b][c + st]]]

\* t[:, :, r0:r1, c0:c1]
SliceHW(t, r0, r1, c0, c1) ==
  LET s  == ShapeOf(t)
      ys == PySliceStart(s[3], r0, r1)
      yl == PySliceLen(s[3], r0, r1)
      xs == PySliceStart(s[4], c0, c1)
      xl == PySliceLen(s[4], c0, c1)
  IN [b \in DOMAIN t |-> [c \in DOMAIN t[b] |->
       [y \in 0..(yl - 1) |-> [x \in 0..(xl - 1) |-> t[b][c][y + ys][x + xs]]]]]

(***************************************************************************)
(* apply_kernels on values.  The element read by a view is found through   *)
(* the flat (row-major) index of the contiguous tensor it reinterprets.    *)
(***************************************************************************)
\* kernel[:, :, crop:-crop, crop:-crop] (needed > h), else the kernel
CroppedKernel(k, src) ==
  LET ks == ShapeOf(k)
      ss == ShapeOf(src)
      crop == CropAmount(ks, ss)
  IN IF CropsKernel(ks, ss) /\ crop > 0 THEN SliceHW(k, crop, -crop, crop, -crop) ELSE k

\* noisy_data[:, :, crop:-crop, crop:-crop] (needed <= h), else noisy_data
CroppedSourceBadNoCrop(k, src) == src

CroppedSource(k, src) ==
  LET ks == ShapeOf(k)
      ss == ShapeOf(src)
      crop == CropAmount(ks, ss)
  IN IF ~CropsKernel(ks, ss) /\ crop > 0 THEN SliceHW(src, crop, -crop, crop, -crop) ELSE src

\* kernel.permute(0, 2, 3, 1).contiguous().view(bs, 1, kh, kw, ksize*ksize)
\* at [b, 0, y, x, t]; kc is the cropped kernel of shape (kb, kd, kh, kw).
KernelViewAt(kc, K, b, y, x, t) ==
  LET s  == ShapeOf(kc)
      f  == ((b * s[3] + y) * s[4] + x) * (K * K) + t
      c0 == f % s[2]
      x0 == (f \div s[2]) % s[4]
      y0 == (f \div (s[2] * s[4])) % s[3]
      b0 == f \div (s[2] * s[4] * s[3])
  IN kc[b0][c0][y0][x0]

\* noisy_data.unfold(2, K, 1).unfold(3, K, 1).contiguous()
\*   .view(bs, ci, kh, kw, K*K) at [b, c, y, x, t]; sc is the cropped source,
\* kh x kw the cropped kernel's spatial size.
TilesViewAt(sc, K, kh, kw, b, c, y, x, t) ==
  LET s  == ShapeOf(sc)
      nh == s[3] - K + 1
      nw == s[4] - K + 1
      f  == (((b * s[2] + c) * kh + y) * kw + x) * (K * K) + t
      v  == f % K
      u  == (f \div K) % K
      j  == (f \div (K * K)) % nw
      i  == (f \div (K * K * nw)) % nh
      c1 == (f \div (K * K * nw * nh)) % s[2]
      b1 == f \div (K * K * nw * nh * s[2])
  IN sc[b1][c1][i + u][j + v]

\* th.sum(kernel*tiles, dim=4); defined when ApplyKernelsShape(..).ok
ApplyKernels(k, src) ==
  LET kc == CroppedKernel(k, src)
      sc == CroppedSource(k, src)
      K  == KSizeOf(ShapeOf(k))
      s  == ShapeOf(kc)
      ss == ShapeOf(sc)
  IN [b \in 0..(ss[1] - 1) |-> [c \in 0..(ss[2] - 1) |->
       [y \in 0..(s[3] - 1) |-> [x \in 0..(s[4] - 1) |->
          RSum([t \in 0..(K * K - 1) |->
                  RMul(KernelViewAt(kc, K, b, y, x, t),
                       TilesViewAt(sc, K, s[3], s[4], b, c, y, x, t))],
               K * K)]]]]

NoResult == [ok |-> FALSE, error |-> "not_run", ksize |-> 0, crop |-> 0,
             kernelc |-> <<>>, sourcec |-> <<>>, shape |-> <<>>]

(***************************************************************************)
(* Specification SpecAK: one call of apply_kernels on tensors of every     *)
(* shape within the bounds.                                                *)
(***************************************************************************)
Unused == <<>>

InitAK ==
  /\ pc = "start"
  /\ kshape \in (1..MaxBatch) \X (1..MaxDepth) \X (1..MaxKer) \X (1..MaxKer)
  /\ sshape \in (1..MaxBatch) \X (1..MaxChan) \X (1..MaxSrc) \X (1..MaxSrc)
  /\ akres = NoResult
  /\ kernel = Unused /\ noisy_data = Unused /\ weighted_sum = Unused
  /\ ksize = 0 /\ mosaic = Unused /\ kernels = Unused
  /\ fwd = Unused /\ roundtrip = Unused

ApplyKernelsCall ==
  /\ pc = "start"
  /\ akres' = ApplyKernelsShape(kshape, sshape)
  /\ pc' = "done"
  /\ UNCHANGED <<kshape, sshape, kernel, noisy_data, weighted_sum,
                 ksize, mosaic, kernels, fwd, roundtrip>>

NextAK == ApplyKernelsCall

SpecAK == InitAK /\ [][NextAK]_vars

(***************************************************************************)
(* Claims about apply_kernels at shape level (specification SpecAK).       *)
(***************************************************************************)
Done == pc = "done"

\* The crop postcondition: the cropped source measures (kh' + K - 1) by
\* (kw' + K - 1), and the slice took equally many rows and columns from
\* each side of the tensor it cropped.
SizesMatchAfterCrop ==
  LET kc == akres.kernelc
      sc == akres.sourcec
      K  == akres.ksize
  IN /\ sc[3] = kc[3] + K - 1
     /\ sc[4] = kc[4] + K - 1

SymmetricCrop ==
  LET c == akres.crop
      cropsKernel == kshape[3] + akres.ksize - 1 > sshape[3]
      hh == IF cropsKernel THEN kshape[3] ELSE sshape[3]
      ww == IF cropsKernel THEN kshape[4] ELSE sshape[4]
  IN c > 0 => /\ RemovedLow(hh, c) = c /\ RemovedHigh(hh, c) = c
              /\ RemovedLow(ww, c) = c /\ RemovedHigh(ww, c) = c

EvenEqualSurplus ==
  LET K == ISqrt(kshape[2])
      d == sshape[3] - (kshape[3] + K - 1)
  IN /\ d % 2 = 0
     /\ sshape[4] - kshape[4] = sshape[3] - kshape[3]
     /\ sshape[3] >= K /\ sshape[4] >= K

C3_ErrorOnBadDepthOrBatch ==
  LET K == ISqrt(kshape[2]) IN
  (Done /\ (K * K # kshape[2] \/ kshape[1] # sshape[1])) => ~akres.ok

\* C6 (as stated): a (K+1) x (K+1) source is the minimum valid size and
\* gives a 1 x 1 output; every source smaller than K+1 in a spatial
\* dimension ends in an error.
C6_MinimumSizeKPlusOne ==
  LET K == ISqrt(kshape[2]) IN
  Done =>
    /\ (sshape[3] = K + 1 /\ sshape[4] = K + 1)
          => (akres.ok /\ akres.shape[3] = 1 /\ akres.shape[4] = 1)
    /\ (sshape[3] < K + 1 \/ sshape[4] < K + 1) => ~akres.ok

\* C6 (amended): a K x K source is the minimum valid size: with a 1 x 1
\* kernel of depth K*K and the same batch size apply_kernels returns an
\* output of spatial size 1 x 1, and every source smaller than K in a
\* spatial dimension ends in an error.
C6_MinimumSizeK ==
  LET K == ISqrt(kshape[2]) IN
  Done =>
    /\ (/\ sshape[3] = K /\ sshape[4] = K
        /\ kshape[3] = 1 /\ kshape[4] = 1
        /\ kshape[2] = K * K /\ kshape[1] = sshape[1])
          => (akres.ok /\ akres.shape = <<sshape[1], sshape[2], 1, 1>>)
    /\ (sshape[3] < K \/ sshape[4] < K) => ~akres.ok

\* C6 witness: a 3 x 3 source with a 1 x 1 kernel of depth 9 returned 1 x 1.
C6_Witness ==
  /\ Done /\ akres.ok
  /\ akres.ksize = 3
  /\ sshape[3] = 3 /\ sshape[4] = 3
  /\ kshape[3] = 1 /\ kshape[4] = 1
  /\ akres.shape[3] = 1 /\ akres.shape[4] = 1

\* C10 (as stated): whenever, after the crop step, the number of K x K
\* windows of the source differs from the kernel's spatial size in at least
\* one dimension, apply_kernels raises an error.
C10_ErrorOnMisalignment ==
  (Done /\ (\/ WindowRows(kshape, sshape) # akres.kernelc[3]
            \/ WindowCols(kshape, sshape) # akres.kernelc[4])) => ~akres.ok

(***************************************************************************)
(* Specification SpecAKV: one call of apply_kernels on tensors with        *)
(* values.  The kernel has depth K*K and the batch size of the source;     *)
(* its weights are numerators over the denominator MaxW and vary with the  *)
(* position; they are convex at some positions and not at others.          *)
(***************************************************************************)
MaxKV == 2
MaxKerV == 2
MaxCrop == 1
MaxVal == 1
MaxW == 2

\* Integer planes used as test data: constants and ramps (every pixel of a
\* ramp has its own value).
Planes(h, w) ==
  {[y \in 0..(h - 1) |-> [x \in 0..(w - 1) |-> c]] : c \in 0..MaxVal}
  \cup {[y \in 0..(h - 1) |-> [x \in 0..(w - 1) |-> s * (y * w + x)]] : s \in 1..MaxVal}

\* The tensor (bs, ci, h, w) whose plane (b, c) is pl shifted by its index.
PlaneTensor(bs, ci, pl) ==
  [b \in 0..(bs - 1) |-> [c \in 0..(ci - 1) |->
     [y \in DOMAIN pl |-> [x \in DOMAIN pl[y] |-> R(pl[y][x] + b * ci + c, 1)]]]]

\* Weight vectors of length n: a at index i and the rest of the total e at
\* the next index (cyclic); the total is MaxW (weights sum to 1) or MaxW + 1.
WeightVectors(n) ==
  {[t \in 0..(n - 1) |-> (IF t = i THEN a ELSE 0) + (IF t = (i + 1) % n THEN e - a ELSE 0)] :
      i \in {0, n - 1}, a \in (-1)..MaxW, e \in {MaxW, MaxW + 1}}

\* The kernel (bs, K*K, kh, kw) that uses v rotated by one more index at
\* each position and batch element.
KernelTensor(bs, K, kh, kw, v) ==
  [b \in 0..(bs - 1) |-> [t \in 0..(K * K - 1) |->
     [y \in 0..(kh - 1) |-> [x \in 0..(kw - 1) |->
        R(v[(t + y * kw + x + b) % (K * K)], MaxW)]]]]

InitAKV ==
  /\ pc = "start"
  /\ \E K \in 1..MaxKV, kh \in 1..MaxKerV, kw \in 1..MaxKerV,
        dh \in {2 * c : c \in (-MaxCrop)..MaxCrop} \cup {1}, dd \in 0..1 :
       LET h == kh + K - 1 + dh
           w == kw + K - 1 + dh + dd
           bs == MaxBatch
           ci == MaxChan
       IN /\ h >= 1 /\ w >= 1
          /\ \E pl \in Planes(h, w), v \in WeightVectors(K * K) :
               /\ kernel = KernelTensor(bs, K, kh, kw, v)
               /\ noisy_data = PlaneTensor(bs, ci, pl)
          /\ kshape = <<bs, K * K, kh, kw>>
          /\ sshape = <<bs, ci, h, w>>
  /\ akres = NoResult
  /\ weighted_sum = Unused
  /\ ksize = 0 /\ mosaic = Unused /\ kernels = Unused
  /\ fwd = Unused /\ roundtrip = Unused

\* The call returns a tensor or raises.
ApplyKernelsValues ==
  /\ pc = "start"
  /\ akres' = ApplyKernelsShape(ShapeOf(kernel), ShapeOf(noisy_data))
  /\ weighted_sum' = IF akres'.ok THEN ApplyKernels(kernel, noisy_data) ELSE Unused
  /\ pc' = "done"
  /\ UNCHANGED <<kshape, sshape, kernel, noisy_data, ksize, mosaic, kernels,
                 fwd, roundtrip>>

NextAKV == ApplyKernelsValues

SpecAKV == InitAKV /\ [][NextAKV]_vars

\* Offsets of the cropped tensors inside the tensors passed in.
KernelOffset == IF kshape[3] + ISqrt(kshape[2]) - 1 > sshape[3]
                  THEN (kshape[3] + ISqrt(kshape[2]) - 1 - sshape[3]) \div 2 ELSE 0

SourceOffset == IF kshape[3] + ISqrt(kshape[2]) - 1 > sshape[3]
                  THEN 0 ELSE (sshape[3] - (kshape[3] + ISqrt(kshape[2]) - 1)) \div 2

\* Sizes are compatible: after the crop every kernel position has its own
\* K x K window of the source.
Compatible ==
  LET K == ISqrt(kshape[2]) IN
  /\ akres.ok
  /\ kshape[1] = sshape[1] /\ kshape[2] = K * K
  /\ akres.sourcec[3] = akres.kernelc[3] + K - 1
  /\ akres.sourcec[4] = akres.kernelc[4] + K - 1

\* The K*K weights at kernel position (y, x) of batch b are a convex
\* combination.
ConvexAt(b, y, x) ==
  LET KK == kshape[2] IN
  /\ \A t \in 0..(KK - 1) : kernel[b][t][y][x].n >= 0
  /\ REq(RSum([t \in 0..(KK - 1) |-> kernel[b][t][y][x]], KK), R(1, 1))

\* C5: for compatible sizes, wherever the K*K weights are non-negative and
\* sum to 1, the output value lies between the minimum and the maximum of
\* the K x K window of the source channel paired with that position.
C5_ConvexityBound ==
  (Done /\ Compatible) =>
    LET K == ISqrt(kshape[2]) IN
    \A b \in 0..(sshape[1] - 1), c \in 0..(sshape[2] - 1),
       y \in 0..(akres.kernelc[3] - 1), x \in 0..(akres.kernelc[4] - 1) :
       ConvexAt(b, y + KernelOffset, x + KernelOffset) =>
         /\ \E u \in 0..(K - 1), v \in 0..(K - 1) :
              RLe(noisy_data[b][c][y + SourceOffset + u][x + SourceOffset + v],
                  weighted_sum[b][c][y][x])
         /\ \E u \in 0..(K - 1), v \in 0..(K - 1) :
              RLe(weighted_sum[b][c][y][x],
                  noisy_data[b][c][y + SourceOffset + u][x + SourceOffset + v])

\* C5 witness: a returned tensor with a 2 x 2 window, a cropped source, and
\* a position whose convex weights mix two different source values.
C5_Witness ==
  /\ Done /\ Compatible
  /\ ISqrt(kshape[2]) = 2
  /\ SourceOffset > 0
  /\ ConvexAt(0, 0, 0)
  /\ weighted_sum[0][0][0][0].n % weighted_sum[0][0][0][0].d # 0

(***************************************************************************)
(* BayerKP: unpacking, softmax, crop_like, un-tiling and forward.          *)
(***************************************************************************)
\* gray_mosaic = mosaic.sum(1): (bs, C, H, W) -> (bs, H, W)
SumChannels(m) ==
  [b \in DOMAIN m |-> [y \in DOMAIN m[b][0] |-> [x \in DOMAIN m[b][0][y] |->
     RSum([c \in DOMAIN m[b] |-> m[b][c][y][x]], Size(m[b]))]]]

\* Number of windows of unfold(dim, size, step) on a dimension of length n.
UnfoldCount(n, size, step) == (n - size) \div step + 1

\* gray.unfold(2, 2, 2).unfold(1, 2, 2).permute(0, 3, 4, 1, 2)
\*     .contiguous().view(bs, 4, h, w):
\* the first unfold appends the column offset, the second the row offset,
\* so plane c = 2 * (column offset) + (row offset).
Unpack(gray) ==
  LET h == UnfoldCount(Size(gray[0]), 2, 2)
      w == UnfoldCount(Size(gray[0][0]), 2, 2)
  IN [b \in DOMAIN gray |-> [c \in 0..3 |->
       [i \in 0..(h - 1) |-> [j \in 0..(w - 1) |->
          gray[b][2 * i + (c % 2)][2 * j + (c \div 2)]]]]]

\* BayerKP.unroll: buf.view(bs, 2, 2, h, w).permute(0, 3, 1, 4, 2)
\*     .contiguous().view(bs, 1, h*2, w*2):
\* plane c = 2 * (row offset) + (column offset).
UnrollBadColumnMajor(buf) ==
  LET s == ShapeOf(buf) IN
  [b \in DOMAIN buf |-> [c \in 0..0 |->
     [y \in 0..(2 * s[3] - 1) |-> [x \in 0..(2 * s[4] - 1) |->
        buf[b][2 * (x % 2) + (y % 2)][y \div 2][x \div 2]]]]]

Unroll(buf) ==
  LET s == ShapeOf(buf) IN
  [b \in DOMAIN buf |-> [c \in 0..0 |->
     [y \in 0..(2 * s[3] - 1) |-> [x \in 0..(2 * s[4] - 1) |->
        buf[b][2 * (y % 2) + (x % 2)][y \div 2][x \div 2]]]]]

\* exp, modelled by the powers of two: positive, increasing, and equal
\* logits get equal weights.
Exp(l) == 2 ^ l

\* F.softmax(k, 1) on a tensor of logits.
SoftmaxBadNoNormalise(k) ==
  [b \in DOMAIN k |-> [c \in DOMAIN k[b] |->
     [y \in DOMAIN k[b][c] |-> [x \in DOMAIN k[b][c][y] |-> R(Exp(k[b][c][y][x]), 1)]]]]

Softmax(k) ==
  [b \in DOMAIN k |-> [c \in DOMAIN k[b] |->
     [y \in DOMAIN k[b][c] |-> [x \in DOMAIN k[b][c][y] |->
        R(Exp(k[b][c][y][x]),
          ISum([c2 \in DOMAIN k[b] |-> Exp(k[b][c2][y][x])], Size(k[b])))]]]]

\* torchlib.image.crop_like(src, tgt): centre-crop src to the spatial size
\* of tgt; crop = (src size - tgt size) // 2 per dimension, applied when
\* some crop is positive.
CropLike(src, tshape) ==
  LET s  == ShapeOf(src)
      c0 == (s[3] - tshape[3]) \div 2
      c1 == (s[4] - tshape[4]) \div 2
  IN IF c0 > 0 \/ c1 > 0 THEN SliceHW(src, c0, s[3] - c0, c1, s[4] - c1) ELSE src

CropLikeShape(sshp, tshape) ==
  LET c0 == (sshp[3] - tshape[3]) \div 2
      c1 == (sshp[4] - tshape[4]) \div 2
  IN IF c0 > 0 \/ c1 > 0
       THEN <<sshp[1], sshp[2], PySliceLen(sshp[3], c0, sshp[3] - c0),
              PySliceLen(sshp[4], c1, sshp[4] - c1)>>
       ELSE sshp

\* th.cat(list, 1) of four single-channel tensors.
Cat4(list) == [b \in DOMAIN list[1] |-> [c \in 0..3 |-> list[c + 1][b][0]]]

\* Elementwise sum of two tensors of the same shape (from_g0 + from_g1).
TAddBadFirstOnly(s, t) == s

TAdd(s, t) ==
  [b \in DOMAIN s |-> [c \in DOMAIN s[b] |->
     [y \in DOMAIN s[b][c] |-> [x \in DOMAIN s[b][c][y] |->
        RAdd(s[b][c][y][x], t[b][c][y][x])]]]]

\* The 2x2 tile orders of forward: position p of the tile takes entry
\* Order[p + 1] of the list [known..., estimates...].
RedOrderBadKnownFirst == <<0, 1, 2, 3>>

RedOrder == <<1, 0, 2, 3>>

BlueOrder == <<1, 2, 0, 3>>

GreenOrder == <<0, 2, 3, 1>>

Reorder(list, order) == [p \in 1..4 |-> list[order[p] + 1]]

\* Channel ranges of the bank read by forward (idx runs from 0).
RedSlice(bank, K, i) == SliceCh(bank, i * K * K, i * K * K + K * K)

BlueSlice(bank, K, i) == SliceCh(bank, 3 * K * K + i * K * K, 3 * K * K + i * K * K + K * K)

GreenSlice(bank, K, i) ==
  SliceCh(bank, 6 * K * K + 2 * i * K * K, 6 * K * K + 2 * i * K * K + 2 * K * K)

\* BayerKP.forward.  All ten apply_kernels calls have the same shapes, so
\* the first call raises or none does; the first th.cat raises when the
\* cropped known plane and the estimates differ in size.
Forward(K, m, bank) ==
  LET cs  == Unpack(SumChannels(m))
      g0  == SliceCh(cs, 0, 1)
      bl  == SliceCh(cs, 1, 2)
      rd  == SliceCh(cs, 2, 3)
      g1  == SliceCh(cs, 3, 4)
      KK  == K * K
      rk(i) == Softmax(RedSlice(bank, K, i))
      bk(i) == Softmax(BlueSlice(bank, K, i))
      gk(i) == Softmax(GreenSlice(bank, K, i))
      gk0(i) == SliceCh(gk(i), 0, KK)
      gk1(i) == SliceCh(gk(i), KK, 2 * KK)
      shp == ApplyKernelsShape(ShapeOf(rk(0)), ShapeOf(rd))
      known == CropLikeShape(ShapeOf(rd), shp.shape)
  IN IF ~shp.ok
       THEN [ok |-> FALSE, error |-> "apply_kernels", output |-> Unused,
             handed |-> <<rk(0)>>]
     ELSE IF known # shp.shape
       THEN [ok |-> FALSE, error |-> "cat", output |-> Unused,
             handed |-> <<rk(0), rk(1), rk(2)>>]
     ELSE
       LET reds   == <<rd, ApplyKernels(rk(0), rd), ApplyKernels(rk(1), rd),
                       ApplyKernels(rk(2), rd)>>
           reds2  == [reds EXCEPT ![1] = CropLike(reds[1], ShapeOf(reds[2]))]
           red    == Unroll(Cat4(Reorder(reds2, RedOrder)))
           blues  == <<bl, ApplyKernels(bk(0), bl), ApplyKernels(bk(1), bl),
                       ApplyKernels(bk(2), bl)>>
           blues2 == [blues EXCEPT ![1] = CropLike(blues[1], ShapeOf(blues[2]))]
           blue   == Unroll(Cat4(Reorder(blues2, BlueOrder)))
           greens == <<g0, g1,
                       TAdd(ApplyKernels(gk0(0), g0), ApplyKernels(gk1(0), g1)),
                       TAdd(ApplyKernels(gk0(1), g0), ApplyKernels(gk1(1), g1))>>
           greens2 == [greens EXCEPT ![1] = CropLike(greens[1], ShapeOf(greens[3])),
                                     ![2] = CropLike(greens[2], ShapeOf(greens[3]))]
           green  == Unroll(Cat4(Reorder(greens2, GreenOrder)))
       IN [ok |-> TRUE, error |-> "none",
           output |-> [b \in DOMAIN red |-> [c \in 0..2 |->
                         IF c = 0 THEN red[b][0]
                         ELSE IF c = 1 THEN green[b][0] ELSE blue[b][0]]],
           handed |-> <<rk(0), rk(1), rk(2), bk(0), bk(1), bk(2),
                        gk0(0), gk1(0), gk0(1), gk1(1)>>]

(***************************************************************************)
(* Specification SpecKP: one call of BayerKP.forward, or the unpack /      *)
(* un-tile round trip, on a mosaic of even size and a bank of logits.      *)
(* Planes are square or one column wider than high; so is the bank, which  *)
(* is at most as large as a plane.                                         *)
(***************************************************************************)
MaxK == 3
MaxPlane == 4
MaxExtra == 1
MaxLogit == 1

\* The bank (bs, depth, bh, bw) of logits with the given step: all zero at
\* step 0, otherwise varying with channel, position and batch element.
Bank(bs, depth, bh, bw, step) ==
  [b \in 0..(bs - 1) |-> [c \in 0..(depth - 1) |->
     [y \in 0..(bh - 1) |-> [x \in 0..(bw - 1) |->
        (step * (c + 2 * y + 3 * x + b)) % (MaxLogit + 1)]]]]

InitKP ==
  /\ pc = "start"
  /\ ksize \in 1..MaxK
  /\ \E bs \in {1, MaxBatch}, hp \in 1..MaxPlane :
     \E wp \in hp..Min(hp + 1, MaxPlane) :
       /\ \E pl \in Planes(2 * hp, 2 * wp) : mosaic = PlaneTensor(bs, 1, pl)
       /\ \E bh \in 1..hp, extra \in {0, MaxExtra}, step \in {0, MaxLogit} :
          \E bw \in bh..Min(bh + 1, wp) :
            kernels = Bank(bs, 10 * ksize * ksize + extra, bh, bw, step)
  /\ fwd = Unused /\ roundtrip = Unused
  /\ kshape = Unused /\ sshape = Unused /\ akres = NoResult
  /\ kernel = Unused /\ noisy_data = Unused /\ weighted_sum = Unused

ForwardCall ==
  /\ pc = "start"
  /\ fwd' = Forward(ksize, mosaic, kernels)
  /\ pc' = "done"
  /\ UNCHANGED <<kshape, sshape, akres, kernel, noisy_data, weighted_sum,
                 ksize, mosaic, kernels, roundtrip>>

UnpackUnroll ==
  /\ pc = "start"
  /\ roundtrip' = Unroll(Unpack(SumChannels(mosaic)))
  /\ pc' = "unrolled"
  /\ UNCHANGED <<kshape, sshape, akres, kernel, noisy_data, weighted_sum,
                 ksize, mosaic, kernels, fwd>>

NextKP == ForwardCall \/ UnpackUnroll

SpecKP == InitKP /\ [][NextKP]_vars

(***************************************************************************)
(* Claims about BayerKP (specification SpecKP).                            *)
(***************************************************************************)
Returned == pc = "done" /\ fwd.ok

\* The mosaic pixel under output pixel (y, x) after centre-cropping the
\* mosaic to the size of the output.
CroppedMosaicAt(b, y, x) ==
  LET offY == (Size(mosaic[b][0]) - Size(fwd.output[b][0])) \div 2
      offX == (Size(mosaic[b][0][0]) - Size(fwd.output[b][0][0])) \div 2
  IN mosaic[b][0][y + offY][x + offX]

\* A mosaic whose tile holds different values off the diagonal, and a bank
\* whose logits are not all equal.
VariedMosaic == mosaic[0][0][0][1] # mosaic[0][0][1][0]

VariedLogits == kernels[0][0][0][0] # kernels[0][1][0][0]

\* C1: known-sample preservation.  At every output pixel whose position in
\* its 2x2 tile is the phase where a colour was measured (green at 0/0 and
\* 1/1, red at 0/1, blue at 1/0), the output channel of that colour
\* (0 red, 1 green, 2 blue) equals the centre-cropped mosaic at that pixel.
C1_KnownSamplesPreserved ==
  Returned =>
    \A b \in DOMAIN fwd.output :
      \A y \in DOMAIN fwd.output[b][0] : \A x \in DOMAIN fwd.output[b][0][y] :
        LET colour == IF y % 2 = x % 2 THEN 1 ELSE IF y % 2 = 0 THEN 0 ELSE 2
        IN fwd.output[b][colour][y][x] = CroppedMosaicAt(b, y, x)

\* C1 witness: forward returned for K = 3, a mosaic of distinct values that
\* had to be centre-cropped, and non-uniform logits.
C1_Witness ==
  /\ Returned /\ ksize = 3
  /\ VariedMosaic /\ VariedLogits
  /\ Size(fwd.output[0][0]) < Size(mosaic[0][0])

AllOnesScenario ==
  /\ ksize = 3
  /\ ShapeOf(mosaic) = <<1, 1, 8, 8>>
  /\ \A y \in 0..7, x \in 0..7 : mosaic[0][0][y][x] = R(1, 1)
  /\ \A c \in DOMAIN kernels[0] : \A y \in DOMAIN kernels[0][c] :
       \A x \in DOMAIN kernels[0][c][y] : kernels[0][c][y][x] = 0

OutputAllOnes ==
  \A b \in DOMAIN fwd.output : \A c \in DOMAIN fwd.output[b] :
    \A y \in DOMAIN fwd.output[b][c] : \A x \in DOMAIN fwd.output[b][c][y] :
      REq(fwd.output[b][c][y][x], R(1, 1))

\* C7 (as stated): in the all-ones scenario the assembly returns an output
\* of shape 1x3x6x6 in which every value is 1.0 (stated for the runs that
\* return: a run that raises refutes the claim as well).
C7_AllOnesSixBySix ==
  (Returned /\ AllOnesScenario) =>
     (ShapeOf(fwd.output) = <<1, 3, 6, 6>> /\ OutputAllOnes)

\* C7 (amended): in the all-ones scenario the assembly completes exactly
\* when the bank is 2x2 or 4x4, and then returns an output of shape
\* 1x3x4x4 in which every value is 1.0.
C7_AllOnesFourByFour ==
  (pc = "done" /\ AllOnesScenario) =>
     /\ fwd.ok <=> (ShapeOf(kernels)[3] = ShapeOf(kernels)[4]
                      /\ ShapeOf(kernels)[3] \in {2, 4})
     /\ fwd.ok => (ShapeOf(fwd.output) = <<1, 3, 4, 4>> /\ OutputAllOnes)

\* C7 witness: the scenario with a 2x2 bank of depth 90, returned.
C7_Witness ==
  /\ Returned /\ AllOnesScenario
  /\ ShapeOf(kernels) = <<1, 90, 2, 2>>

\* C8 (as stated): unpacking a mosaic of even size and un-tiling the four
\* planes in the same order reproduces the mosaic pixel for pixel.
C8_RoundTripIdentity ==
  pc = "unrolled" =>
    \A b \in DOMAIN mosaic : \A y \in DOMAIN mosaic[b][0] :
      \A x \in DOMAIN mosaic[b][0][y] :
        roundtrip[b][0][y][x] = mosaic[b][0][y][x]

\* C8 (amended): unpacking and un-tiling in the same order reproduces the
\* mosaic with the two off-diagonal pixels of every 2x2 tile exchanged:
\* pixel (2i+p, 2j+q) of the result is pixel (2i+q, 2j+p) of the mosaic.
C8_RoundTripTransposesTiles ==
  pc = "unrolled" =>
    /\ ShapeOf(roundtrip) = ShapeOf(mosaic)
    /\ \A b \in DOMAIN mosaic : \A y \in DOMAIN mosaic[b][0] :
         \A x \in DOMAIN mosaic[b][0][y] :
           roundtrip[b][0][y][x] =
             mosaic[b][0][2 * (y \div 2) + (x % 2)][2 * (x \div 2) + (y % 2)]

\* C8 witness: a round trip of a mosaic whose tile is not symmetric.
C8_Witness ==
  /\ pc = "unrolled" /\ VariedMosaic
  /\ roundtrip[0][0][0][1] = mosaic[0][0][1][0]

\* Sum of the weights of kernel k at (b, y, x) along its channel axis.
WeightSum(k, b, y, x) == RSum([t \in DOMAIN k[b] |-> k[b][t][y][x]], Size(k[b]))

NonNegative(k) ==
  \A b \in DOMAIN k : \A t \in DOMAIN k[b] : \A y \in DOMAIN k[b][t] :
    \A x \in DOMAIN k[b][t][y] : k[b][t][y][x].n >= 0 /\ k[b][t][y][x].d > 0

SumsToOne(k) ==
  \A b \in DOMAIN k : \A y \in DOMAIN k[b][0] : \A x \in DOMAIN k[b][0][y] :
    REq(WeightSum(k, b, y, x), R(1, 1))

JointlySumToOne(k0, k1) ==
  \A b \in DOMAIN k0 : \A y \in DOMAIN k0[b][0] : \A x \in DOMAIN k0[b][0][y] :
    REq(RAdd(WeightSum(k0, b, y, x), WeightSum(k1, b, y, x)), R(1, 1))

\* C9 (as stated): every kernel handed to apply_kernels (three red, three
\* blue, both half-slices of each missing green) has non-negative weights
\* that sum to 1 along its K*K axis.
C9_EveryHandedKernelSumsToOne ==
  pc = "done" =>
    \A i \in DOMAIN fwd.handed : NonNegative(fwd.handed[i]) /\ SumsToOne(fwd.handed[i])

\* C9 (amended): every kernel handed to apply_kernels has non-negative
\* weights; the red and blue kernels sum to 1 along their K*K axis, and the
\* two half-slices of each missing green sum to 1 together, along the joint
\* 2*K*K axis.
C9_SoftmaxContract ==
  pc = "done" =>
    /\ \A i \in DOMAIN fwd.handed : NonNegative(fwd.handed[i])
    /\ \A i \in DOMAIN fwd.handed : i <= 6 => SumsToOne(fwd.handed[i])
    /\ fwd.ok => /\ Len(fwd.handed) = 10
                 /\ JointlySumToOne(fwd.handed[7], fwd.handed[8])
                 /\ JointlySumToOne(fwd.handed[9], fwd.handed[10])

\* C9 witness: forward returned for K = 3 with non-uniform logits, so all
\* ten kernels were handed on.
C9_Witness ==
  /\ Returned /\ ksize = 3 /\ VariedLogits
  /\ Len(fwd.handed) = 10

====
